---- MODULE Spec2Model ----
(***************************************************************************)
(* A model of app_model/backends/qt/_qaction.py: the three action classes  *)
(* QCommandAction, QCommandRuleAction and QMenuItemAction, the class-level *)
(* cache QMenuItemAction._cache, the destruction hooks that clean it, and   *)
(* the refresh of enabled / checked / visible from a context.             *)
(*                                                                         *)
(* Collaborators that are not part of the file are modelled by what the    *)
(* file relies on: an expression either evaluates to a boolean or raises   *)
(* NameError for a name the context lacks; a toggle provider returns a      *)
(* boolean or raises; a deferred command result is a value or an           *)
(* exception; setEnabled / setChecked / setVisible store the flag given.   *)
(***************************************************************************)
EXTENDS Integers, Sequences, FiniteSets, TLC

\* ------------------------------------------------------------------ bounds
\* number of action objects Spec allocates
MaxActions == 2
\* number of Application objects Spec creates
MaxApps == 1
\* number of distinct values hash(menu_item) can take
HashMod == 9
\* the calls of a toggle provider on one object are counted up to this number
MaxProviderCalls == 2

\* the action objects and the Application objects; SpecWide uses all of them,
\* Spec the first MaxActions and MaxApps
ActionIds == 1..(MaxActions + 1)
AppIds == 1..(MaxApps + 1)
\* the values id(app) takes
Addrs == AppIds

\* ------------------------------------------------------------ expressions
Names == {"x", "y"}

NoneExpr == [op |-> "None", name |-> "", val |-> FALSE]
Constant(b) == [op |-> "Constant", name |-> "", val |-> b]
Name(n) == [op |-> "Name", name |-> n, val |-> FALSE]
Not(n) == [op |-> "Not", name |-> n, val |-> FALSE]

\* the contexts callers pass: mappings from some of the names to booleans
Contexts == UNION {[D -> BOOLEAN] : D \in SUBSET Names}
EmptyCtx == CHOOSE c \in Contexts : DOMAIN c = {}

\* Expr.eval(ctx): the value, or NameError for a name the context lacks
Eval(e, ctx) ==
    CASE e.op = "Constant" -> [ok |-> TRUE, val |-> e.val]
      [] e.op = "Name" ->
            IF e.name \in DOMAIN ctx THEN [ok |-> TRUE, val |-> ctx[e.name]]
            ELSE [ok |-> FALSE, val |-> FALSE]
      [] e.op = "Not" ->
            IF e.name \in DOMAIN ctx THEN [ok |-> TRUE, val |-> ~ctx[e.name]]
            ELSE [ok |-> FALSE, val |-> FALSE]
      [] OTHER -> [ok |-> FALSE, val |-> FALSE]

\* `expr.eval(ctx) if expr else True`
EvalOrTrue(e, ctx) ==
    IF e.op = "None" THEN [ok |-> TRUE, val |-> TRUE] ELSE Eval(e, ctx)

\* ------------------------------------------------------------ descriptors
\* CommandRule.toggled: None, an Expr, or a ToggleRule(condition, get_current)
NoToggle == [type |-> "None", condition |-> NoneExpr, get_current |-> FALSE]
ExprToggle(e) == [type |-> "Expr", condition |-> e, get_current |-> FALSE]
ToggleRule(e, g) == [type |-> "ToggleRule", condition |-> e, get_current |-> g]

CommandRule(i, e, t) == [id |-> i, enablement |-> e, toggled |-> t]
MenuItem(c, w) == [command |-> c, when |-> w]

NoRule == CommandRule("", NoneExpr, NoToggle)
NoItem == MenuItem(NoRule, NoneExpr)

\* hash(menu_item): a function of the descriptor's content with few values,
\* so that unequal descriptors can collide
ExprCode(e) ==
    CASE e.op = "None" -> 0
      [] e.op = "Constant" -> IF e.val THEN 1 ELSE 2
      [] e.op = "Name" -> IF e.name = "x" THEN 3 ELSE 4
      [] OTHER -> IF e.name = "x" THEN 5 ELSE 6

ToggleCode(t) ==
    CASE t.type = "None" -> 0
      [] t.type = "Expr" -> 1 + ExprCode(t.condition)
      [] OTHER -> 8 + 2 * ExprCode(t.condition) + (IF t.get_current THEN 1 ELSE 0)

Hash(m) ==
    ((((IF m.command.id = "a" THEN 1 ELSE 2) * 31
            + ExprCode(m.command.enablement)) * 31
            + ToggleCode(m.command.toggled)) * 31
            + ExprCode(m.when)) % HashMod

\* the descriptors the cache lifecycle is explored with
LifecycleItems ==
    {MenuItem(CommandRule("a", NoneExpr, NoToggle), NoneExpr),
     MenuItem(CommandRule("a", NoneExpr, NoToggle), Constant(FALSE)),
     MenuItem(CommandRule("a", NoneExpr, ToggleRule(NoneExpr, TRUE)), NoneExpr)}

\* the descriptors the context refresh is explored with
RefreshEnablements == {NoneExpr, Constant(FALSE), Not("x")}
RefreshToggles ==
    {NoToggle, ExprToggle(Name("x")), ToggleRule(Name("y"), TRUE),
     ToggleRule(NoneExpr, TRUE), ToggleRule(Constant(TRUE), FALSE),
     ToggleRule(Constant(FALSE), TRUE)}
RefreshWhens == {NoneExpr, Constant(FALSE), Name("y")}
RefreshRules ==
    {CommandRule("a", e, t) : e \in RefreshEnablements, t \in RefreshToggles}
RefreshItems == {MenuItem(c, w) : c \in RefreshRules, w \in RefreshWhens}

\* ------------------------------------------------------------------ state
VARIABLES
    apps,     \* the Application objects: status, id(app), slots on app.destroyed
    actions,  \* the action objects
    cache,    \* QMenuItemAction._cache: (id(app), hash(menu_item)) -> action
    call,     \* the last operation a caller performed, and how it ended
    recent    \* key -> the action the last cache-enabled construction
              \*        returned for it, forgotten at every destruction

vars == <<apps, actions, cache, call, recent>>

NoApp == [status |-> "unallocated", addr |-> 0, destroyed_hooks |-> <<>>]

\* an action object before allocation; enabled / checked / visible are the
\* defaults of a new QAction.  provider_calls and provided record the calls of
\* the toggle provider on the object and what the last one did, updated that a
\* caller has invoked update_from_context on it
NoAction ==
    [status |-> "unallocated", kind |-> "", initialized |-> FALSE, app |-> 0,
     command_id |-> "", cmd_rule |-> NoRule, menu_item |-> NoItem,
     enabled |-> TRUE, checked |-> FALSE, visible |-> TRUE,
     destroyed_hooks |-> <<>>,
     via_cache |-> FALSE, returned |-> FALSE, init_runs |-> 0,
     provider_calls |-> 0, provided |-> "not_called", updated |-> FALSE]

NoCall ==
    [op |-> "none", inst |-> 0, app |-> 0, item |-> NoItem, use_cache |-> FALSE,
     hit |-> FALSE, stale |-> FALSE, ctx |-> EmptyCtx, provider |-> "not_called",
     executed |-> <<>>, forced |-> FALSE, deferred |-> "none", raised |-> "none",
     empty_updates |-> 0, popped |-> <<>>]

Done(r) == [act |-> r, raised |-> "none"]
Raise(r, exc) == [act |-> r, raised |-> exc]

\* ------------------------------------------------ QCommandAction (l. 31-62)
\* QCommandAction.__init__: QAction.__init__ makes the toolkit object, then the
\* application and the command id are bound
QCommandAction_init(act, command_id, a) ==
    [act EXCEPT !.status = "live", !.app = a, !.command_id = command_id,
                !.enabled = TRUE, !.checked = FALSE, !.visible = TRUE]

\* _on_triggered catching what the deferred result raises
OnTriggered_Swallow(act, deferred) ==
    [executed |-> <<act.command_id>>, forced |-> TRUE, raised |-> "none"]

\* QCommandAction._on_triggered: execute_command(self._command_id).result()
\* `deferred` is what the deferred result holds: "ok" or an exception
OnTriggered(act, deferred) ==
    [executed |-> <<act.command_id>>, forced |-> TRUE,
     raised |-> IF deferred = "ok" THEN "none" ELSE deferred]

\* -------------------------------------------- QCommandRuleAction (l. 65-119)
\* QCommandRuleAction._refresh: the toggle provider, when there is one, is
\* called and gives the checked state; `p` is what the provider does
Refresh(act, p) ==
    IF act.cmd_rule.toggled.type = "ToggleRule" /\ act.cmd_rule.toggled.get_current
    THEN LET a1 == [act EXCEPT !.provided = p,
                               !.provider_calls =
                                    IF @ < MaxProviderCalls THEN @ + 1 ELSE @]
         IN  IF p = "raise" THEN Raise(a1, "ProviderError")
             ELSE Done([a1 EXCEPT !.checked = (p = "True")])
    ELSE Done(act)

ProviderCalled(rule) ==
    rule.toggled.type = "ToggleRule" /\ rule.toggled.get_current

\* QCommandRuleAction.__init__
QCommandRuleAction_init(act, command_rule, a, p) ==
    LET a1 == [QCommandAction_init(act, command_rule.id, a)
                  EXCEPT !.cmd_rule = command_rule]
    IN  IF command_rule.toggled.type # "None" THEN Refresh(a1, p) ELSE Done(a1)

\* the expression update_from_context evaluates for the checked state
ToggleCondition(toggled) ==
    IF toggled.type = "None" THEN NoneExpr ELSE toggled.condition

\* update_from_context forgetting the condition of a ToggleRule
RuleUpdate_ExprOnly(act, ctx) ==
    LET e == EvalOrTrue(act.cmd_rule.enablement, ctx)
        a1 == [act EXCEPT !.enabled = e.val]
        t == Eval(act.cmd_rule.toggled.condition, ctx)
    IN  IF ~e.ok THEN Raise(act, "NameError")
        ELSE IF act.cmd_rule.toggled.type # "Expr" THEN Done(a1)
        ELSE IF ~t.ok THEN Raise(a1, "NameError")
        ELSE Done([a1 EXCEPT !.checked = t.val])

\* update_from_context evaluating both expressions before it sets a flag
RuleUpdate_Atomic(act, ctx) ==
    LET e == EvalOrTrue(act.cmd_rule.enablement, ctx)
        cond == ToggleCondition(act.cmd_rule.toggled)
        t == EvalOrTrue(cond, ctx)
    IN  IF ~e.ok \/ ~t.ok THEN Raise(act, "NameError")
        ELSE IF cond.op = "None" THEN Done([act EXCEPT !.enabled = e.val])
        ELSE Done([act EXCEPT !.enabled = e.val, !.checked = t.val])

\* QCommandRuleAction.update_from_context
RuleUpdate(act, ctx) ==
    LET e == EvalOrTrue(act.cmd_rule.enablement, ctx)
        cond == ToggleCondition(act.cmd_rule.toggled)
        a1 == [act EXCEPT !.enabled = e.val]
        t == Eval(cond, ctx)
    IN  IF ~e.ok THEN Raise(act, "NameError")
        ELSE IF cond.op = "None" THEN Done(a1)
        ELSE IF ~t.ok THEN Raise(a1, "NameError")
        ELSE Done([a1 EXCEPT !.checked = t.val])

\* --------------------------------------------- QMenuItemAction (l. 122-185)
\* update_from_context showing only what is enabled
MenuUpdate_VisibleIfEnabled(act, ctx) ==
    LET r == RuleUpdate(act, ctx)
        w == EvalOrTrue(act.menu_item.when, ctx)
    IN  IF r.raised # "none" THEN r
        ELSE IF ~w.ok THEN Raise(r.act, "NameError")
        ELSE Done([r.act EXCEPT !.visible = (w.val /\ r.act.enabled)])

\* QMenuItemAction.update_from_context
MenuUpdate(act, ctx) ==
    LET r == RuleUpdate(act, ctx)
        w == EvalOrTrue(act.menu_item.when, ctx)
    IN  IF r.raised # "none" THEN r
        ELSE IF ~w.ok THEN Raise(r.act, "NameError")
        ELSE Done([r.act EXCEPT !.visible = w.val])

\* update_from_context of the object's class
UpdateFromContext(act, ctx) ==
    IF act.kind = "QMenuItemAction" THEN MenuUpdate(act, ctx)
    ELSE RuleUpdate(act, ctx)

\* the (id(app), hash(menu_item)) key of __new__ and __init__
CacheKey(addr, menu_item) == <<addr, Hash(menu_item)>>

\* __new__ without the cache lookup
QMenuItemAction_new_NoLookup(cch, key, use_cache, fresh) ==
    [self |-> fresh, hit |-> FALSE,
     cache |-> IF use_cache
               THEN [k \in DOMAIN cch \cup {key} |-> IF k = key THEN fresh ELSE cch[k]]
               ELSE cch]

\* QMenuItemAction.__new__: the cached object on a hit, else a new object
\* `fresh`, registered when caching is on
QMenuItemAction_new(cch, key, use_cache, fresh) ==
    IF use_cache /\ key \in DOMAIN cch
    THEN [self |-> cch[key], hit |-> TRUE, cache |-> cch]
    ELSE [self |-> fresh, hit |-> FALSE,
          cache |-> IF use_cache
                    THEN [k \in DOMAIN cch \cup {key} |->
                             IF k = key THEN fresh ELSE cch[k]]
                    ELSE cch]

\* __init__ without the _initialized guard
IsInitialized_Never(act) == FALSE

\* `initialized = getattr(self, "_initialized", False)`
IsInitialized(act) == act.initialized

\* the guarded body of QMenuItemAction.__init__ (l. 162-168); `hooked` says
\* that the two cache-removal slots were connected
MenuInitBody(act, menu_item, a, key, p) ==
    LET r == QCommandRuleAction_init(act, menu_item.command, a, p)
    IN  IF r.raised # "none" THEN [act |-> r.act, raised |-> r.raised, hooked |-> FALSE]
        ELSE [act |-> [r.act EXCEPT !.menu_item = menu_item,
                                    !.destroyed_hooks = Append(@, key),
                                    !.initialized = TRUE,
                                    !.init_runs = @ + 1],
              raised |-> "none", hooked |-> TRUE]

\* the initial update without the suppress
InitialUpdate_NoSuppress(act) == MenuUpdate(act, EmptyCtx)

\* `with contextlib.suppress(NameError): self.update_from_context({})`
InitialUpdate(act) ==
    LET r == MenuUpdate(act, EmptyCtx)
    IN  IF r.raised = "NameError" THEN Done(r.act) ELSE r

\* QAction.__init__ has run on the object before
ToolkitInitialized(act) == act.status \in {"live", "destroyed"}

\* __init__ with the empty-context update inside the _initialized guard
QMenuItemAction_init_UpdateOnce(act, menu_item, a, key, p, re) ==
    IF ~IsInitialized(act)
    THEN IF ToolkitInitialized(act) /\ re = "RuntimeError"
         THEN [act |-> act, raised |-> "RuntimeError", hooked |-> FALSE,
               updates |-> 0]
         ELSE LET b == MenuInitBody(act, menu_item, a, key, p)
                  u == InitialUpdate(b.act)
              IN  IF b.raised # "none"
                  THEN [act |-> b.act, raised |-> b.raised, hooked |-> FALSE,
                        updates |-> 0]
                  ELSE [act |-> u.act, raised |-> u.raised, hooked |-> TRUE,
                        updates |-> 1]
    ELSE [act |-> act, raised |-> "none", hooked |-> FALSE, updates |-> 0]

\* QMenuItemAction.__init__; `re` is what the toolkit does when
\* QAction.__init__ runs a second time on an object: the bindings either make
\* a new toolkit object or refuse with RuntimeError
\* `updates` counts the calls of update_from_context({}) that were made
QMenuItemAction_init(act, menu_item, a, key, p, re) ==
    IF ~IsInitialized(act)
    THEN IF ToolkitInitialized(act) /\ re = "RuntimeError"
         THEN [act |-> act, raised |-> "RuntimeError", hooked |-> FALSE,
               updates |-> 0]
         ELSE LET b == MenuInitBody(act, menu_item, a, key, p)
                  u == InitialUpdate(b.act)
              IN  IF b.raised # "none"
                  THEN [act |-> b.act, raised |-> b.raised, hooked |-> FALSE,
                        updates |-> 0]
                  ELSE [act |-> u.act, raised |-> u.raised, hooked |-> TRUE,
                        updates |-> 1]
    ELSE IF act.status = "destroyed"
         THEN [act |-> act, raised |-> "RuntimeError", hooked |-> FALSE,
               updates |-> 1]
         ELSE LET u == InitialUpdate(act)
              IN  [act |-> u.act, raised |-> u.raised, hooked |-> FALSE,
                   updates |-> 1]

\* `QMenuItemAction._cache.pop(key, None)`
Pop(cch, key) == [k \in DOMAIN cch \ {key} |-> cch[k]]

\* pop without the default: KeyError for an absent key
PopRaises_NoDefault(cch, key) == key \notin DOMAIN cch

\* whether `_cache.pop(key, None)` raises: with a default it never does
PopRaises(cch, key) == FALSE

RECURSIVE PopAll(_, _)
\* the slots of a destroyed signal run in the order they were connected
PopAll(cch, keys) ==
    IF keys = <<>> THEN cch ELSE PopAll(Pop(cch, Head(keys)), Tail(keys))

RECURSIVE PopAllRaises(_, _)
\* whether one of the slots raises
PopAllRaises(cch, keys) ==
    IF keys = <<>> THEN FALSE
    ELSE PopRaises(cch, Head(keys)) \/ PopAllRaises(Pop(cch, Head(keys)), Tail(keys))

HookKeys(hooks) == [n \in DOMAIN hooks |-> hooks[n].key]

\* -------------------------------------------------------------- operations
\* what a toggle provider does when called
ProviderOutcomes == {"True", "False", "raise"}
\* what a second QAction.__init__ on the same object does
ReinitOutcomes == {"revive", "RuntimeError"}
\* what a deferred command result holds
DeferredOutcomes == {"ok", "CommandError"}

Range(f) == {f[k] : k \in DOMAIN f}

\* a deleted object that no cache entry holds: nothing reads its fields again
Deleted == [NoAction EXCEPT !.status = "destroyed"]

Unallocated == {i \in ActionIds : actions[i].status = "unallocated"}
\* the object the next allocation makes
Fresh == IF Unallocated = {} THEN 0 ELSE CHOOSE i \in Unallocated : \A j \in Unallocated : i <= j

\* the objects that keep a reference to their application: the toolkit keeps
\* the wrapper of a live object, the cache keeps whatever it holds
Retained == {i \in ActionIds : actions[i].status = "live"} \cup Range(cache)

\* a value id() can give a new Application: not the id of an object that is
\* still referenced
FreeAddr(addr) ==
    /\ \A a \in AppIds : apps[a].status = "live" => apps[a].addr # addr
    /\ \A i \in Retained : apps[actions[i].app].addr # addr

\* id values matter only by being equal or not: the least free one is taken
NewAddr(addr) ==
    FreeAddr(addr) /\ \A other \in Addrs : FreeAddr(other) => addr <= other

Init ==
    /\ apps = [a \in AppIds |-> NoApp]
    /\ actions = [i \in ActionIds |-> NoAction]
    /\ cache = <<>>
    /\ call = NoCall
    /\ recent = <<>>

\* Application.get_or_create(name) creating the application
CreateApp(a, addr) ==
    /\ apps[a].status = "unallocated"
    /\ \A b \in AppIds : b < a => apps[b].status # "unallocated"
    /\ NewAddr(addr)
    /\ apps' = [apps EXCEPT ![a] = [status |-> "live", addr |-> addr,
                                    destroyed_hooks |-> <<>>]]
    /\ call' = [NoCall EXCEPT !.op = "create_app"]
    /\ UNCHANGED <<actions, cache, recent>>

\* QCommandAction(command_id, app)
NewCommandAction(command_id, a, allowed) ==
    /\ apps[a].status = "live"
    /\ Fresh \in allowed
    /\ actions' = [actions EXCEPT ![Fresh] =
            [QCommandAction_init([NoAction EXCEPT !.kind = "QCommandAction"],
                                 command_id, a)
                EXCEPT !.returned = TRUE]]
    /\ call' = [NoCall EXCEPT !.op = "new_command", !.inst = Fresh, !.app = a]
    /\ UNCHANGED <<apps, cache, recent>>

\* QCommandRuleAction(command_rule, app)
NewRuleAction(command_rule, a, ps, allowed) ==
    /\ apps[a].status = "live"
    /\ Fresh \in allowed
    /\ \E p \in IF ProviderCalled(command_rule) THEN ps ELSE {"True"} :
       \E r \in {QCommandRuleAction_init(
                    [NoAction EXCEPT !.kind = "QCommandRuleAction"],
                    command_rule, a, p)} :
           /\ actions' = [actions EXCEPT ![Fresh] =
                    [r.act EXCEPT !.returned = (r.raised = "none")]]
           /\ call' = [NoCall EXCEPT !.op = "new_rule", !.inst = Fresh, !.app = a,
                           !.item = MenuItem(command_rule, NoneExpr),
                           !.provider = IF ProviderCalled(command_rule)
                                        THEN p ELSE "not_called",
                           !.raised = r.raised]
    /\ UNCHANGED <<apps, cache, recent>>

\* QMenuItemAction(menu_item, app, cache=use_cache): __new__, then __init__
\* `ps` is what the provider may do, `allowed` the objects that may be allocated
NewMenuItemAction(menu_item, a, use_cache, ps, allowed) ==
    /\ apps[a].status = "live"
    /\ \E key \in {CacheKey(apps[a].addr, menu_item)} :
       \E n \in {QMenuItemAction_new(cache, key, use_cache, Fresh)} :
       \E old \in {IF n.hit THEN actions[n.self]
                   ELSE [NoAction EXCEPT !.kind = "QMenuItemAction",
                                         !.status = "allocated",
                                         !.via_cache = use_cache]} :
       \E re \in IF ToolkitInitialized(old) /\ ~IsInitialized(old)
                 THEN ReinitOutcomes ELSE {"revive"} :
       \E p \in IF ~IsInitialized(old) /\ re = "revive"
                   /\ ProviderCalled(menu_item.command)
                THEN ps ELSE {"True"} :
          /\ n.hit \/ n.self \in allowed
          /\ \E r \in {QMenuItemAction_init(old, menu_item, a, key, p, re)} :
                /\ actions' = [actions EXCEPT ![n.self] =
                        [r.act EXCEPT !.returned = (@ \/ r.raised = "none")]]
                /\ cache' = n.cache
                /\ apps' = IF r.hooked
                           THEN [apps EXCEPT ![a].destroyed_hooks =
                                    Append(@, [owner |-> n.self, key |-> key])]
                           ELSE apps
                /\ call' = [NoCall EXCEPT !.op = "new_menu", !.inst = n.self,
                                !.app = a, !.item = menu_item,
                                !.use_cache = use_cache, !.hit = n.hit,
                                !.stale = (old.status = "destroyed"),
                                !.provider =
                                    IF ~IsInitialized(old) /\ re = "revive"
                                       /\ ProviderCalled(menu_item.command)
                                    THEN p ELSE "not_called",
                                !.raised = r.raised,
                                !.empty_updates = r.updates]
                /\ recent' = IF use_cache /\ r.raised = "none"
                             THEN [k \in DOMAIN recent \cup {key} |->
                                      IF k = key THEN n.self ELSE recent[k]]
                             ELSE recent

\* a caller's action.update_from_context(ctx)
Update(i, ctx) ==
    /\ actions[i].status = "live"
    /\ actions[i].returned
    /\ actions[i].kind # "QCommandAction"
    /\ \E r \in {UpdateFromContext(actions[i], ctx)} :
           /\ actions' = [actions EXCEPT ![i] = [r.act EXCEPT !.updated = TRUE]]
           /\ call' = [NoCall EXCEPT !.op = "update", !.inst = i, !.ctx = ctx,
                           !.raised = r.raised]
    /\ UNCHANGED <<apps, cache, recent>>

\* the user activates the action: the triggered signal calls _on_triggered
Trigger(i, deferred) ==
    /\ actions[i].status = "live"
    /\ actions[i].returned
    /\ LET r == OnTriggered(actions[i], deferred)
       IN  call' = [NoCall EXCEPT !.op = "triggered", !.inst = i,
                        !.executed = r.executed, !.forced = r.forced,
                        !.deferred = deferred, !.raised = r.raised]
    /\ UNCHANGED <<apps, actions, cache, recent>>

\* the toolkit deletes the action: its destroyed signal runs the connected slots
DestroyAction(i) ==
    /\ actions[i].status = "live"
    /\ cache' = PopAll(cache, actions[i].destroyed_hooks)
    /\ actions' = [actions EXCEPT ![i] =
            IF i \in Range(cache') THEN [@ EXCEPT !.status = "destroyed"]
            ELSE Deleted]
    /\ call' = [NoCall EXCEPT !.op = "destroy_action", !.inst = i,
                    !.app = actions[i].app,
                    !.popped = actions[i].destroyed_hooks,
                    !.raised = IF PopAllRaises(cache, actions[i].destroyed_hooks)
                               THEN "KeyError" ELSE "none"]
    /\ recent' = <<>>
    /\ UNCHANGED apps

\* Application.destroy(name): app.destroyed runs the connected slots
DestroyApp(a) ==
    /\ apps[a].status = "live"
    /\ apps' = [apps EXCEPT ![a].status = "destroyed", ![a].destroyed_hooks = <<>>]
    /\ cache' = PopAll(cache, HookKeys(apps[a].destroyed_hooks))
    /\ call' = [NoCall EXCEPT !.op = "destroy_app", !.app = a,
                    !.popped = HookKeys(apps[a].destroyed_hooks),
                    !.raised = IF PopAllRaises(cache, HookKeys(apps[a].destroyed_hooks))
                               THEN "KeyError" ELSE "none"]
    /\ recent' = <<>>
    /\ UNCHANGED actions

\* the cache lifecycle: menu-item actions of a few descriptors on the
\* applications `as` and the objects `ids`, destruction of actions and applications
Lifecycle(as, ids) ==
    \/ \E a \in as, addr \in Addrs : CreateApp(a, addr)
    \/ \E m \in LifecycleItems, a \in as, u \in BOOLEAN :
            NewMenuItemAction(m, a, u, {"True", "raise"}, ids)
    \/ \E i \in ActionIds : DestroyAction(i)
    \/ \E a \in as : DestroyApp(a)

Next == Lifecycle(1..MaxApps, 1..MaxActions)

Spec == Init /\ [][Next]_vars

\* the same with one more action object and one more application
NextWide == Lifecycle(AppIds, ActionIds)

SpecWide == Init /\ [][NextWide]_vars

\* the object the context refresh is explored on
FirstOnly == {1}

\* the context refresh: actions of the three classes over every descriptor,
\* one application, every context, one action object
NextRefresh ==
    \/ \E addr \in Addrs : CreateApp(1, addr)
    \/ \E c \in {"a", "b"} : NewCommandAction(c, 1, FirstOnly)
    \/ \E r \in RefreshRules : NewRuleAction(r, 1, ProviderOutcomes, FirstOnly)
    \/ \E m \in RefreshItems, u \in BOOLEAN :
            NewMenuItemAction(m, 1, u, ProviderOutcomes, FirstOnly)
    \/ \E i \in ActionIds, ctx \in Contexts : Update(i, ctx)
    \/ \E i \in ActionIds, d \in DeferredOutcomes : Trigger(i, d)
    \/ \E i \in ActionIds : DestroyAction(i)
    \/ DestroyApp(1)

SpecRefresh == Init /\ [][NextRefresh]_vars

\* ------------------------------------------------------------------ claims
\* the key of the construction `call` records
CallKey == CacheKey(apps[call.app].addr, call.item)

\* a construction of a menu-item action that returned to its caller
Constructed == call.op = "new_menu" /\ call.raised = "none"

\* the key a live, initialized menu-item action was registered under
KeyOf(i) == CacheKey(apps[actions[i].app].addr, actions[i].menu_item)

\* e names a variable that ctx lacks
Missing(e, ctx) == e.op \in {"Name", "Not"} /\ e.name \notin DOMAIN ctx

\* the value of e in a context that has its variable; TRUE for no expression
Value(e, ctx) ==
    CASE e.op = "None" -> TRUE
      [] e.op = "Constant" -> e.val
      [] e.op = "Name" -> ctx[e.name]
      [] OTHER -> ~ctx[e.name]

\* C1: a cache-enabled construction whose key was returned by an earlier
\* cache-enabled construction, with no destruction since, returns the same
\* object; a construction with caching disabled returns another object.
C1_SameInstanceWhileCached ==
    [][(call'.op = "new_menu" /\ call'.raised = "none"
        /\ CacheKey(apps'[call'.app].addr, call'.item) \in DOMAIN recent)
       => LET first == recent[CacheKey(apps'[call'.app].addr, call'.item)]
          IN  IF call'.use_cache THEN call'.inst = first ELSE call'.inst # first
      ]_vars

\* C1 witness: a second cache-enabled construction returned the cached object
C1_Witness ==
    /\ Constructed /\ call.use_cache /\ call.hit
    /\ actions[call.inst].status = "live"
    /\ recent[CallKey] = call.inst

\* C2: no two live actions obtained with caching enabled share a cache key.
C2_OneLiveActionPerKey ==
    \A i, j \in ActionIds :
        (/\ i # j
         /\ actions[i].status = "live" /\ actions[j].status = "live"
         /\ actions[i].returned /\ actions[j].returned
         /\ actions[i].via_cache /\ actions[j].via_cache)
        => KeyOf(i) # KeyOf(j)

\* C3: a cache-enabled construction never returns an object that was destroyed,
\* and no cache entry refers to a destroyed object.
C3_DestroyedNeverReturned ==
    /\ ~(Constructed /\ call.use_cache /\ call.stale)
    /\ \A k \in DOMAIN cache : actions[cache[k]].status # "destroyed"

\* C4: no cache entry maps to a destroyed action and none is keyed by the
\* identity of a destroyed application.
C4_NoStaleEntry ==
    \A k \in DOMAIN cache :
        /\ actions[cache[k]].status = "live"
        /\ \E a \in AppIds : apps[a].status = "live" /\ apps[a].addr = k[1]

\* the slots action i connected to its application's destroyed signal
AppHooksOf(i) ==
    {n \in DOMAIN apps[actions[i].app].destroyed_hooks :
        apps[actions[i].app].destroyed_hooks[n].owner = i}

C6_TriggerExecutesBoundCommand ==
    call.op = "triggered"
    => /\ call.executed = <<actions[call.inst].command_id>>
       /\ actions[call.inst].kind # "QCommandAction"
          => actions[call.inst].command_id = actions[call.inst].cmd_rule.id
       /\ actions[call.inst].kind = "QMenuItemAction"
          => actions[call.inst].command_id = actions[call.inst].menu_item.command.id
       /\ call.forced
       /\ call.raised = (IF call.deferred = "ok" THEN "none" ELSE call.deferred)

\* C6 witness: an activation whose deferred result raised
C6_Witness ==
    /\ call.op = "triggered" /\ call.deferred = "CommandError"
    /\ call.raised = "CommandError"
    /\ call.executed = <<"a">>

\* C7: a menu item with `when` constant false and no enablement expression is,
\* right after construction, not visible and enabled.
C7_ConstantFalseWhenHides ==
    (/\ Constructed
     /\ call.item.when = Constant(FALSE)
     /\ call.item.command.enablement = NoneExpr)
    => /\ ~actions[call.inst].visible
       /\ actions[call.inst].enabled

\* the expressions update_from_context evaluates on action i
ExprsOf(i) ==
    {actions[i].cmd_rule.enablement, ToggleCondition(actions[i].cmd_rule.toggled)}
    \cup (IF actions[i].kind = "QMenuItemAction"
          THEN {actions[i].menu_item.when} ELSE {})

\* C8: a construction never raises NameError; a caller's update_from_context
\* raises NameError exactly when an expression names a variable its context lacks.
C8_NameErrorSwallowedOnlyAtConstruction ==
    /\ call.op = "new_menu" => call.raised # "NameError"
    /\ call.op = "update"
       => (call.raised = "NameError"
           <=> \E e \in ExprsOf(call.inst) : Missing(e, call.ctx))

\* C8 witness: a construction returned although an expression of the item
\* names a variable the empty context lacks
C8_Witness ==
    /\ Constructed /\ ~call.hit
    /\ \E e \in ExprsOf(call.inst) : Missing(e, EmptyCtx)

\* C9: after an update_from_context that returned, enabled is the enablement
\* expression on that context (true without one) and, with a toggle
\* condition, checked is that condition on that context.
C9_EnabledCheckedFollowContext ==
    (call.op = "update" /\ call.raised = "none")
    => LET act == actions[call.inst]
           cond == ToggleCondition(act.cmd_rule.toggled)
       IN  /\ act.enabled = Value(act.cmd_rule.enablement, call.ctx)
           /\ cond.op # "None" => act.checked = Value(cond, call.ctx)

\* C9 witness: an update left the action disabled and checked
C9_Witness ==
    /\ call.op = "update" /\ call.raised = "none"
    /\ ~actions[call.inst].enabled
    /\ actions[call.inst].checked
    /\ actions[call.inst].cmd_rule.toggled.type = "Expr"

\* C10: after an update_from_context on a menu-item action that returned,
\* visible is the `when` expression on that context (true without one).
C10_VisibleFollowsWhen ==
    (/\ call.op = "update" /\ call.raised = "none"
     /\ actions[call.inst].kind = "QMenuItemAction")
    => actions[call.inst].visible
            = Value(actions[call.inst].menu_item.when, call.ctx)

\* C10 witness: an update made a disabled action visible by its `when`
C10_Witness ==
    /\ call.op = "update" /\ call.raised = "none"
    /\ actions[call.inst].kind = "QMenuItemAction"
    /\ actions[call.inst].menu_item.when = Name("y")
    /\ actions[call.inst].visible
    /\ ~actions[call.inst].enabled

\* C11: an action of a rule-based class whose toggle rule has a provider that
\* returned true is checked from its construction on, whatever the rule's
\* condition is, as long as no caller has invoked update_from_context on it.
C11_ProviderTrueChecked ==
    \A i \in ActionIds :
        (/\ actions[i].status = "live" /\ actions[i].returned
         /\ actions[i].kind \in {"QCommandRuleAction", "QMenuItemAction"}
         /\ ProviderCalled(actions[i].cmd_rule)
         /\ actions[i].provided = "True"
         /\ ~actions[i].updated)
        => actions[i].checked

\* the keys of the slots action i connected to its application's destroyed signal
AppHookKeysOf(i) ==
    HookKeys(SelectSeq(apps[actions[i].app].destroyed_hooks,
                       LAMBDA h : h.owner = i))

\* C12: the removal slot on an action's destroyed signal and the one on its
\* application's destroyed signal pop the same key; fired in either order the
\* second finds the key absent and does not raise, both orders leave the same
\* cache, and the entries under other keys are as before.
C12_HooksIdempotent ==
    /\ call.op \in {"destroy_action", "destroy_app"} => call.raised = "none"
    /\ \A i \in ActionIds :
        (/\ actions[i].status = "live" /\ actions[i].initialized
         /\ actions[i].kind = "QMenuItemAction"
         /\ apps[actions[i].app].status = "live")
        => LET own == actions[i].destroyed_hooks
               app == AppHookKeysOf(i)
               afterOwn == PopAll(cache, own)
               afterApp == PopAll(cache, app)
           IN  /\ own # <<>> /\ app = own
               /\ \A n \in DOMAIN own :
                    /\ own[n] \notin DOMAIN afterOwn
                    /\ own[n] \notin DOMAIN afterApp
               /\ ~PopAllRaises(afterOwn, app) /\ ~PopAllRaises(afterApp, own)
               /\ PopAll(afterOwn, app) = PopAll(afterApp, own)
               /\ PopAll(afterOwn, app)
                    = [k \in DOMAIN cache \ Range(own) |-> cache[k]]

\* C12 witness: the application's slots fired first, then the action was
\* destroyed and its own slot popped the key a second time
C12_Witness ==
    /\ call.op = "destroy_action" /\ call.raised = "none"
    /\ call.popped # <<>>
    /\ apps[call.app].status = "destroyed"

\* C13: right after the construction of a menu-item action, a constant
\* enablement expression is the enabled state and a constant `when` expression
\* is the visible state, whatever the item's other expressions are.
C13_ConstantsTakeEffect ==
    (Constructed /\ actions[call.inst].menu_item = call.item)
    => LET act == actions[call.inst]
       IN  /\ call.item.command.enablement.op = "Constant"
                => act.enabled = call.item.command.enablement.val
           /\ call.item.when.op = "Constant"
                => act.visible = call.item.when.val

\* C14: every construction of a menu-item action that returns has called
\* update_from_context({}) exactly once on the returned object; on a cache hit
\* the object is left as that one empty-context update leaves the object the
\* cache held, whatever a caller's update_from_context had set on it.
C14_EveryConstructionUpdates ==
    [][(call'.op = "new_menu" /\ call'.raised = "none")
       => /\ call'.empty_updates = 1
          /\ (call'.hit /\ actions[call'.inst].initialized)
                => actions'[call'.inst]
                     = [InitialUpdate(actions[call'.inst]).act
                            EXCEPT !.returned = TRUE]
      ]_vars

\* C14 witness: a cache hit returned an object on which a caller had invoked
\* update_from_context, after one more empty-context update
C14_Witness ==
    /\ Constructed /\ call.hit /\ call.empty_updates = 1
    /\ actions[call.inst].updated
    /\ actions[call.inst].menu_item.when = Constant(FALSE)
    /\ ~actions[call.inst].visible

\* C15: the toggle provider is called once on every action object whose rule
\* has one, at its first initialization, and never again by
\* update_from_context or by a later construction that returns the same
\* object; on an object whose rule has no provider it is never called.
C15_ProviderCalledOnce ==
    \A i \in ActionIds :
        /\ actions[i].provider_calls <= 1
        /\ (actions[i].status = "live" /\ actions[i].returned
             /\ actions[i].kind \in {"QCommandRuleAction", "QMenuItemAction"})
           => actions[i].provider_calls
                = (IF ProviderCalled(actions[i].cmd_rule) THEN 1 ELSE 0)

\* C16: an action constructed with caching disabled leaves the cache as it
\* is, at its construction and at its destruction.
C16_UncachedLeavesCache ==
    [][/\ (call'.op = "new_menu" /\ ~call'.use_cache) => cache' = cache
       /\ (call'.op = "destroy_action" /\ ~actions[call'.inst].via_cache)
            => cache' = cache
      ]_vars

\* C17: the object a cache-enabled construction returns holds the menu item
\* and the application the caller asked for.
C17_ReturnedMatchesRequest ==
    (Constructed /\ call.use_cache)
    => /\ actions[call.inst].menu_item = call.item
       /\ actions[call.inst].app = call.app

\* what one update_from_context(ctx) makes of the flags `old` of a menu-item
\* action with expressions en, cond, wh: enabled, then checked, then visible,
\* up to the first expression that names a variable ctx lacks
FlagsAfter(old, en, cond, wh, ctx) ==
    IF Missing(en, ctx) THEN old
    ELSE LET f1 == [old EXCEPT !.enabled = Value(en, ctx)]
         IN  IF Missing(cond, ctx) THEN f1
             ELSE LET f2 == IF cond.op = "None" THEN f1
                            ELSE [f1 EXCEPT !.checked = Value(cond, ctx)]
                  IN  IF Missing(wh, ctx) THEN f2
                      ELSE [f2 EXCEPT !.visible = Value(wh, ctx)]

FlagsOf(act) ==
    [enabled |-> act.enabled, checked |-> act.checked, visible |-> act.visible]

\* C18: update_from_context on a menu-item action sets enabled, then checked,
\* then visible, and stops without rollback at the first expression that
\* raises: the flags set before it carry their new values, the others keep
\* their previous ones.  This holds for a caller's context and for the
\* empty-context update of a construction that hits the cache; after a first
\* construction the previous values are the defaults and the provider's result.
C18_UpdateOrderNoRollback ==
    [][/\ (/\ call'.op = "update"
           /\ actions[call'.inst].kind = "QMenuItemAction")
          => LET act == actions[call'.inst]
             IN  FlagsOf(actions'[call'.inst])
                    = FlagsAfter(FlagsOf(act), act.cmd_rule.enablement,
                                 ToggleCondition(act.cmd_rule.toggled),
                                 act.menu_item.when, call'.ctx)
       /\ (/\ call'.op = "new_menu" /\ call'.raised = "none" /\ call'.hit
           /\ actions[call'.inst].initialized)
          => LET act == actions[call'.inst]
             IN  FlagsOf(actions'[call'.inst])
                    = FlagsAfter(FlagsOf(act), act.cmd_rule.enablement,
                                 ToggleCondition(act.cmd_rule.toggled),
                                 act.menu_item.when, EmptyCtx)
       /\ (/\ call'.op = "new_menu" /\ call'.raised = "none"
           /\ ~actions[call'.inst].initialized)
          => FlagsOf(actions'[call'.inst])
                = FlagsAfter([enabled |-> TRUE,
                              checked |-> (call'.provider = "True"),
                              visible |-> TRUE],
                             call'.item.command.enablement,
                             ToggleCondition(call'.item.command.toggled),
                             call'.item.when, EmptyCtx)
      ]_vars

\* C18 witness: an update raised NameError at the toggle condition after it had
\* disabled the action, and `when`, the constant false, was never applied
C18_Witness ==
    /\ call.op = "update" /\ call.raised = "NameError"
    /\ actions[call.inst].kind = "QMenuItemAction"
    /\ actions[call.inst].cmd_rule.enablement = Not("x")
    /\ "x" \in DOMAIN call.ctx /\ call.ctx["x"]
    /\ Missing(ToggleCondition(actions[call.inst].cmd_rule.toggled), call.ctx)
    /\ actions[call.inst].menu_item.when = Constant(FALSE)
    /\ ~actions[call.inst].enabled
    /\ actions[call.inst].visible

\* C19: between operations every object the cache holds has completed its
\* initialization and has its removal slot on its own destroyed signal and on
\* its application's; a construction that raised left no entry under its key.
C19_CacheHoldsInitialized ==
    /\ \A k \in DOMAIN cache :
          /\ actions[cache[k]].initialized
          /\ k \in Range(actions[cache[k]].destroyed_hooks)
          /\ k \in Range(AppHookKeysOf(cache[k]))
    /\ (call.op = "new_menu" /\ call.raised # "none" /\ ~call.hit)
        => CallKey \notin DOMAIN cache

====
